---------------------------- MODULE Spec2Model ----------------------------
(***************************************************************************)
(* A model of msb2txt.py: MsbParser reads an MSB file (header, entry       *)
(* table, text blob) and decodes every entry of the entry table into an    *)
(* annotated string.                                                       *)
(*                                                                         *)
(* Bytes are integers 0..255, a bytes object is a sequence of bytes, and a *)
(* Python str is a sequence of one-character strings, so that "appending"  *)
(* is \o and two texts are equal exactly when they are equal character by  *)
(* character.  Python indices are 0-based; Index and Slice below carry     *)
(* Python's rules for negative and out-of-range indices.                   *)
(***************************************************************************)
EXTENDS Integers, Sequences, FiniteSets, TLC

(***************************************************************************)
(* Bounds of the model.                                                    *)
(***************************************************************************)
MaxBlobLen == 3      \* text blobs: every byte string over Alphabet up to this length
MaxEntries == 2      \* entry tables of 0..MaxEntries entries
MaxParses  == 2      \* calls of parse() on one MsbParser
MaxStall   == 2      \* iterations of the while loop explored without cursor progress

(***************************************************************************)
(* Python data-model helpers.                                              *)
(***************************************************************************)
Min(a, b) == IF a < b THEN a ELSE b
Max(a, b) == IF a > b THEN a ELSE b

\* s[k]: a negative k counts from the end; "IndexError" outside -len..len-1.
InRange(s, k) == k >= -Len(s) /\ k < Len(s)
Index(s, k) == IF k >= 0 THEN s[k + 1] ELSE s[Len(s) + k + 1]

\* s[a:b] for a bytes object or a str
Slice(s, a, b) ==
    LET n  == Len(s)
        na == IF a < 0 THEN Max(a + n, 0) ELSE Min(a, n)
        nb == IF b < 0 THEN Max(b + n, 0) ELSE Min(b, n)
    IN  IF na < nb THEN SubSeq(s, na + 1, nb) ELSE <<>>

\* struct.unpack('<i', b): little-endian signed 32-bit, b of exactly 4 bytes.
\* The top byte is taken signed first, so no intermediate exceeds 32 bits.
UnpackLE32(b) ==
    (IF b[4] >= 128 THEN b[4] - 256 ELSE b[4]) * 16777216
        + b[3] * 65536 + b[2] * 256 + b[1]

\* struct.unpack('>H', b): big-endian unsigned 16-bit, b of exactly 2 bytes.
UnpackBE16(b) == b[1] * 256 + b[2]

\* struct.unpack('>I', b)[0] & 0x7FFFFFFF: big-endian unsigned 32-bit with the
\* high bit cleared; the mask is applied to the top byte (b[1] % 128) before
\* the shift, which is the same number and stays within 32 bits.
UnpackBE32Masked(b) ==
    (b[1] % 128) * 16777216 + b[2] * 65536 + b[3] * 256 + b[4]

\* the inverse layout, used only to build input files
PackLE32(v) ==
    LET u == IF v < 0 THEN v + 2147483647 + 1 ELSE v   \* low 31 bits
        top == (u \div 16777216) + (IF v < 0 THEN 128 ELSE 0)
    IN  <<u % 256, (u \div 256) % 256, (u \div 65536) % 256, top>>

(***************************************************************************)
(* String formatting.                                                      *)
(***************************************************************************)
HexDigits == <<"0", "1", "2", "3", "4", "5", "6", "7",
               "8", "9", "A", "B", "C", "D", "E", "F">>
DecDigits == <<"0", "1", "2", "3", "4", "5", "6", "7", "8", "9">>

\* f"{b:02X}"
Hex02(b) == <<HexDigits[((b \div 16) % 16) + 1], HexDigits[(b % 16) + 1]>>

\* f"{c:08X}" for 0 <= c < 2^32
Hex08(c) ==
    Hex02(c \div 16777216) \o Hex02((c \div 65536) % 256)
        \o Hex02((c \div 256) % 256) \o Hex02(c % 256)

\* f"{n}" for n >= 0
RECURSIVE DecNat(_)
DecNat(n) == IF n < 10 THEN <<DecDigits[n + 1]>>
             ELSE DecNat(n \div 10) \o <<DecDigits[(n % 10) + 1]>>

\* f"{n}" for an int
Dec(n) == IF n < 0 THEN <<"-">> \o DecNat(0 - n) ELSE DecNat(n)

(***************************************************************************)
(* MsbParser.COMMAND_CODES and MSB_SIGNATURE.                              *)
(***************************************************************************)
COMMAND_CODES ==
    (0   :> <<"L", "i", "n", "e", "B", "r", "e", "a", "k">>) @@
    (1   :> <<"C", "h", "a", "r", "a", "c", "t", "e", "r", "N", "a", "m", "e">>) @@
    (2   :> <<"L", "i", "n", "e", "S", "t", "a", "r", "t">>) @@
    (3   :> <<"L", "i", "n", "e", "E", "n", "d">>) @@
    (4   :> <<"S", "e", "t", "C", "o", "l", "o", "r">>) @@
    (9   :> <<"R", "u", "b", "y", "B", "a", "s", "e">>) @@
    (10  :> <<"R", "u", "b", "y", "T", "e", "x", "t", "S", "t", "a", "r", "t">>) @@
    (11  :> <<"R", "u", "b", "y", "T", "e", "x", "t", "E", "n", "d">>) @@
    (18  :> <<"S", "e", "t", "M", "a", "r", "g", "i", "n", "L", "e", "f", "t">>) @@
    (24  :> <<"I", "n", "p", "u", "t", "T", "e", "x", "t">>) @@
    (32  :> <<"P", "l", "a", "y", "e", "r", "S", "u", "r", "n", "a", "m", "e">>) @@
    (33  :> <<"P", "l", "a", "y", "e", "r", "G", "i", "v", "e", "n", "N", "a", "m", "e">>) @@
    (255 :> <<"S", "t", "r", "i", "n", "g", "E", "n", "d">>)

MSB_SIGNATURE == <<77, 69, 83, 0>>     \* b'MES\0'

\* COMMAND_CODES.get(current_byte, f"Cmd{current_byte:02X}")
CmdName(b) == IF b \in DOMAIN COMMAND_CODES THEN COMMAND_CODES[b]
              ELSE <<"C", "m", "d">> \o Hex02(b)

(***************************************************************************)
(* hex_to_char(index, font_data): (character, success).                    *)
(***************************************************************************)
\* a lookup that takes index 0 for invalid
hex_to_char_SkipsZero(index, font) ==
    IF 0 < index /\ index < Len(font)
    THEN [char |-> <<font[index + 1]>>, success |-> TRUE]
    ELSE [char |-> <<>>, success |-> FALSE]

hex_to_char(index, font) ==
    IF 0 <= index /\ index < Len(font)
    THEN [char |-> <<font[index + 1]>>, success |-> TRUE]
    ELSE [char |-> <<>>, success |-> FALSE]   \* the message is only printed

(***************************************************************************)
(* Python's None (a field not yet assigned) and an unbound local.          *)
(* char_code is a local of parse_text_data that no statement binds before   *)
(* the character branch; once bound it is never negative.                  *)
(***************************************************************************)
None    == "None"
Unbound == -1

(***************************************************************************)
(* MsbParser.read_header.  The fields are assigned in program order, so an  *)
(* exception leaves the ones already assigned; self.entries is appended to, *)
(* never reset.  exc is the exception raised ("none" when it returns).      *)
(***************************************************************************)
RECURSIVE ReadEntries(_, _, _, _)
ReadEntries(raw, k, cnt, acc) ==
    IF k >= cnt THEN [entries |-> acc, exc |-> "none"]
    ELSE LET pos == 16 + (k * 8)
             rec == Slice(raw, pos, pos + 8)
         IN  IF Len(rec) # 8
             THEN [entries |-> acc, exc |-> "struct.error"]
             ELSE ReadEntries(raw, k + 1, cnt,
                      Append(acc, [index  |-> UnpackLE32(SubSeq(rec, 1, 4)),
                                   offset |-> UnpackLE32(SubSeq(rec, 5, 8))]))

\* the signature test of line 179, and one that only looks at the length
MagicOk_LengthOnly(mg) == Len(mg) = 4
MagicOk(mg) == mg = MSB_SIGNATURE

read_header(raw, old) ==
    LET mg == Slice(raw, 0, 4)
        vb == Slice(raw, 4, 8)
        cb == Slice(raw, 8, 12)
        tb == Slice(raw, 12, 16)
    IN  IF ~MagicOk(mg)
        THEN [old EXCEPT !.magic = mg, !.exc = "ValueError"]
        ELSE IF Len(vb) # 4
        THEN [old EXCEPT !.magic = mg, !.exc = "struct.error"]
        ELSE IF Len(cb) # 4
        THEN [old EXCEPT !.magic = mg, !.version = UnpackLE32(vb),
                         !.exc = "struct.error"]
        ELSE IF Len(tb) # 4
        THEN [old EXCEPT !.magic = mg, !.version = UnpackLE32(vb),
                         !.count = UnpackLE32(cb), !.exc = "struct.error"]
        ELSE LET r == ReadEntries(raw, 0, UnpackLE32(cb), old.entries)
             IN  [magic |-> mg, version |-> UnpackLE32(vb),
                  count |-> UnpackLE32(cb), text_offset |-> UnpackLE32(tb),
                  entries |-> r.entries, exc |-> r.exc]

(***************************************************************************)
(* One iteration of the while loop of parse_text_data, entered with        *)
(* i < len(raw_data): the cursor, the accumulator and char_code after it,   *)
(* whether it left the loop by break, and the exception it raised.         *)
(***************************************************************************)
Outcome(ni, ncur, ncode, brk, exc) ==
    [i |-> ni, current_string |-> ncur, char_code |-> ncode,
     brk |-> brk, exc |-> exc]

\* the character branch, lines 232-265
CharBranch(raw, font, is32, i, cur, code) ==
    LET n     == Len(raw)
        w     == IF is32 THEN 4 ELSE 2
        avail == IF is32 THEN i + 3 < n ELSE i + 1 < n
        word  == Slice(raw, i, i + w)
        ncode == IF ~avail THEN code
                 ELSE IF is32 THEN UnpackBE32Masked(word)
                 ELSE UnpackBE16(word) % 32768
        ni    == IF avail THEN i + w ELSE i
    IN  IF avail /\ Len(word) # w
        THEN Outcome(i, cur, code, FALSE, "struct.error")
        ELSE IF ncode = Unbound
        THEN Outcome(ni, cur, ncode, FALSE, "UnboundLocalError")
        ELSE IF hex_to_char(ncode, font).success
        THEN Outcome(ni, cur \o hex_to_char(ncode, font).char, ncode, FALSE, "none")
        ELSE Outcome(ni, cur \o <<"[">> \o Hex08(ncode) \o <<"]">>, ncode,
                     FALSE, "none")

\* the guards of the two opcodes with operands, lines 271 and 276
\* a guard that asks for one byte more than the operand needs
SetColorGuard_OneMore(b, i, n) == b = 4 /\ i + 4 < n
\* a guard that is content with two bytes after the opcode
SetColorGuard_OneLess(b, i, n) == b = 4 /\ i + 2 < n
SetColorGuard(b, i, n) == b = 4 /\ i + 3 < n
SetMarginLeftGuard(b, i, n) == b = 18 /\ i + 2 < n

\* the string bytes 0x20 and 0x21 stand for, lines 281-288
\* the two names taken for each other
PlayerName_Swapped(b, sur, given) == IF b = 32 THEN given ELSE sur
PlayerName(b, sur, given) == IF b = 32 THEN sur ELSE given

\* the command branch, lines 266-293
CommandBranch(raw, sur, given, i, cur, code) ==
    LET n   == Len(raw)
        b   == Index(raw, i)
        rgb == Slice(raw, i + 1, i + 4)
        mb  == Slice(raw, i + 1, i + 3)
    IN  IF b = 255
        THEN Outcome(i, cur, code, TRUE, "none")
        ELSE IF SetColorGuard(b, i, n)
        THEN IF Len(rgb) # 3
             THEN Outcome(i, cur, code, FALSE, "ValueError")
             ELSE Outcome(i + 4,
                      cur \o <<"<", "#">> \o Hex02(rgb[1]) \o Hex02(rgb[2])
                          \o Hex02(rgb[3]) \o <<">">>,
                      code, FALSE, "none")
        ELSE IF SetMarginLeftGuard(b, i, n)
        THEN IF Len(mb) # 2
             THEN Outcome(i, cur, code, FALSE, "struct.error")
             ELSE Outcome(i + 3,
                      cur \o <<"<", "M", "a", "r", "g", "i", "n", "L", "e", "f", "t", ":">>
                          \o Dec(UnpackBE16(mb)) \o <<">">>,
                      code, FALSE, "none")
        ELSE IF b = 32 \/ b = 33
        THEN Outcome(i + 1, cur \o PlayerName(b, sur, given), code, FALSE, "none")
        ELSE Outcome(i + 1, cur \o <<"[">> \o CmdName(b) \o <<"]">>, code,
                     FALSE, "none")

LoopBody(raw, font, sur, given, is32, i, cur, code) ==
    IF ~InRange(raw, i)
    THEN Outcome(i, cur, code, FALSE, "IndexError")
    ELSE IF Index(raw, i) >= 128 /\ Index(raw, i) < 255
    THEN CharBranch(raw, font, is32, i, cur, code)
    ELSE CommandBranch(raw, sur, given, i, cur, code)

\* The indices of raw_data one iteration at cursor i asks for: the byte under
\* the cursor, the word of a character, the operand of SetColor or
\* SetMarginLeft (the slice printed with a failed lookup is only a diagnostic).
Reads(raw, is32, i) ==
    LET n == Len(raw)
        b == Index(raw, i)
        w == IF is32 THEN 4 ELSE 2
    IN  {i} \cup
        (IF ~InRange(raw, i) THEN {}
         ELSE IF b >= 128 /\ b < 255
         THEN (IF (IF is32 THEN i + 3 < n ELSE i + 1 < n)
               THEN i..(i + w - 1) ELSE {})
         ELSE IF SetColorGuard(b, i, n) THEN (i + 1)..(i + 3)
         ELSE IF SetMarginLeftGuard(b, i, n) THEN (i + 1)..(i + 2)
         ELSE {})

\* f"[{index}] {current_string}", line 298
Record(index, cur) == <<"[">> \o Dec(index) \o <<"]", " ">> \o cur

(***************************************************************************)
(* Input files.  A file is built from its fields in the layout of the      *)
(* format and is read back by read_header from the bytes alone.            *)
(***************************************************************************)
\* LineBreak / low byte, SetColor, character lead byte, StringEnd
Alphabet == {0, 4, 128, 255}

GenericBlobs == UNION {[1..n -> Alphabet] : n \in 0..MaxBlobLen}

ScenarioBlobs ==
    { <<128, 0, 128, 1, 255>>,                  \* "AB" in 16-bit mode
      <<32, 128, 0, 255>>,                      \* surname, 'A'
      <<33, 128, 1>>,                           \* given name, 'B', no terminator
      <<128, 0, 128>>,                          \* 'A', then a lead byte cut off
      <<32, 33, 32>>,                           \* names only
      <<4, 31, 42, 255>>,                       \* SetColor 1F 2A FF, at the buffer end
      <<4, 31, 42, 255, 128, 0, 255>>,          \* SetColor, then 'A'
      <<5, 18, 1, 44, 255>>,                    \* unknown opcode, SetMarginLeft 300
      <<128, 5, 128, 0, 255>>,                  \* code 5 is outside the table
      <<128, 0, 0, 0, 128, 0, 0, 1, 255>>,      \* "AB" in 32-bit mode
      <<254, 255, 255, 255, 255>>,              \* the largest 32-bit code
      <<4, 31, 42>>,                            \* SetColor with two bytes after it
      <<5, 4>>,                                 \* SetColor at the last byte
      <<18, 1>>,                                \* SetMarginLeft with one byte after it
      <<0, 18>> }                               \* SetMarginLeft at the last byte

LogicalIndex(k) == IF k % 2 = 1 THEN 3 + k ELSE 0 - k

RECURSIVE EntryBytes(_, _)
EntryBytes(offs, k) ==
    IF k > Len(offs) THEN <<>>
    ELSE PackLE32(LogicalIndex(k)) \o PackLE32(offs[k]) \o EntryBytes(offs, k + 1)

MkFile(mg, cnt, toff, offs, blob) ==
    mg \o PackLE32(1) \o PackLE32(cnt) \o PackLE32(toff)
       \o EntryBytes(offs, 1) \o blob

\* a well-formed file: the text blob follows the entry table
WellFormed(offs, blob) ==
    MkFile(MSB_SIGNATURE, Len(offs), 16 + (8 * Len(offs)), offs, blob)

\* entries start at the first byte, at the last byte, or at the end of the blob
Starts(blob) == {0, Len(blob) - 1, Len(blob)}

OffsetTables(blob) == UNION {[1..c -> Starts(blob)] : c \in 0..MaxEntries}

GenericFiles ==
    UNION {{WellFormed(offs, blob) : offs \in OffsetTables(blob)} :
              blob \in GenericBlobs}

ScenarioFiles ==
    {WellFormed(<<0>>, blob) : blob \in ScenarioBlobs}
        \cup {WellFormed(<<0, 0>>, blob) : blob \in ScenarioBlobs}
        \cup {MkFile(MSB_SIGNATURE, -1, 16, <<>>, blob) : blob \in ScenarioBlobs}

\* a file of one entry whose cursor starts at position s of the file
StartAt(s, blob) == MkFile(MSB_SIGNATURE, 1, 24, <<s - 24>>, blob)

\* entries that start before the buffer (down to its negated length and one
\* below) or beyond its end, by the entry offset or by the header's text offset
OutsideBlobs == { <<128, 0, 255>>, <<0, 4, 1, 2, 3>>, <<128>> }

OutsideStartFiles ==
    UNION {{StartAt(s, blob) :
               s \in {-1, -2, -3, -4, 0 - (24 + Len(blob)),
                      0 - (25 + Len(blob)), 25 + Len(blob)}} :
              blob \in OutsideBlobs}
        \cup {MkFile(MSB_SIGNATURE, 1, -1, <<0>>, blob) : blob \in OutsideBlobs}

\* files with a format error: a wrong signature, a cut header, a cut entry table
BadMagicFiles ==
    {MkFile(mg, 1, 24, <<0>>, blob) :
        mg \in {<<77, 69, 83, 1>>, <<77, 80, 75, 0>>}, blob \in ScenarioBlobs}

TruncatedFiles ==
    {Slice(WellFormed(<<0, 0>>, blob), 0, n) :
        n \in {0, 3, 4, 7, 11, 15, 16, 23, 31}, blob \in ScenarioBlobs}
        \cup {MkFile(MSB_SIGNATURE, 3, 40, <<0>>, blob) : blob \in ScenarioBlobs}

AB == <<"A", "B">>
Kudo == <<"K", "u", "d", "o">>
Shin == <<"S", "h", "i", "n">>

Fonts == {AB, <<"A">>, <<>>}
Names == {<<Kudo, Shin>>, <<<<>>, <<>>>>}

(***************************************************************************)
(* State.                                                                  *)
(*   file, font_data, player_surname, player_given_name, is_32bit: what    *)
(*     the parser was constructed with (file is the content of filename);  *)
(*   raw_data .. strings: the fields of MsbParser;                         *)
(*   entry_idx, i, current_string, char_code: the locals of                *)
(*     parse_text_data; pc is the position of the parser:                  *)
(*       "idle"  no call of parse() is running,                            *)
(*       "for"   at the head of the for loop over self.entries,            *)
(*       "while" at the head of the while loop of the entry entry_idx;     *)
(*   result, error: what the last parse() returned ("none" before the      *)
(*     first return) and the exception it caught; parses counts the calls; *)
(*   output: the lines save_txt wrote (<<>>: no file written);             *)
(*   stall: consecutive iterations that left the cursor where it was;      *)
(*   fresh_code: history variable, the value char_code has in a decode     *)
(*     that starts at the current entry with no entry decoded before it.   *)
(***************************************************************************)
VARIABLES file, font_data, player_surname, player_given_name, is_32bit,
          raw_data, magic, version, count, text_offset, entries, strings,
          entry_idx, i, current_string, char_code, pc,
          result, error, parses, output, stall, fresh_code

inputs == <<file, font_data, player_surname, player_given_name, is_32bit>>
fields == <<raw_data, magic, version, count, text_offset, entries, strings>>
locals == <<entry_idx, i, current_string, char_code, fresh_code, stall>>
vars   == <<inputs, fields, locals, pc, result, error, parses, output>>

\* MsbParser.__init__
Init ==
    /\ \/ /\ file \in GenericFiles
          /\ font_data = AB
          /\ player_surname = Kudo /\ player_given_name = Shin
       \/ /\ file \in ScenarioFiles
          /\ font_data \in Fonts
          /\ \E nm \in Names : player_surname = nm[1] /\ player_given_name = nm[2]
       \/ /\ file \in BadMagicFiles \cup TruncatedFiles \cup OutsideStartFiles
          /\ font_data = AB
          /\ player_surname = Kudo /\ player_given_name = Shin
    /\ is_32bit \in BOOLEAN
    /\ raw_data = None /\ magic = None /\ version = None
    /\ count = None /\ text_offset = None
    /\ strings = <<>> /\ entries = <<>>
    /\ entry_idx = 0 /\ i = 0 /\ current_string = <<>>
    /\ char_code = Unbound /\ fresh_code = Unbound /\ stall = 0
    /\ pc = "idle" /\ result = "none" /\ error = "none"
    /\ parses = 0 /\ output = <<>>

(***************************************************************************)
(* parse(), up to the first entry: read the file, read_header, enter       *)
(* parse_text_data; an exception of read_header makes parse() return False. *)
(***************************************************************************)
Parse ==
    /\ pc = "idle"
    /\ parses < MaxParses
    /\ parses' = parses + 1
    /\ raw_data' = file
    /\ LET h == read_header(file,
                    [magic |-> magic, version |-> version, count |-> count,
                     text_offset |-> text_offset, entries |-> entries,
                     exc |-> "none"])
       IN  /\ magic' = h.magic /\ version' = h.version /\ count' = h.count
           /\ text_offset' = h.text_offset /\ entries' = h.entries
           /\ IF h.exc # "none"
              THEN /\ pc' = "idle" /\ result' = "False" /\ error' = h.exc
                   /\ UNCHANGED locals
              ELSE /\ pc' = "for" /\ result' = "none" /\ error' = "none"
                   /\ entry_idx' = 0 /\ i' = 0 /\ current_string' = <<>>
                   /\ char_code' = Unbound /\ fresh_code' = Unbound
                   /\ stall' = 0
    /\ UNCHANGED <<inputs, strings, output>>

(***************************************************************************)
(* The head of the for loop: the next entry starts with an empty           *)
(* accumulator and its cursor; after the last entry parse() returns True.  *)
(***************************************************************************)
ForEntry ==
    /\ pc = "for"
    /\ IF entry_idx < Len(entries)
       THEN /\ current_string' = <<>>
            /\ i' = text_offset + entries[entry_idx + 1].offset
            /\ fresh_code' = Unbound
            /\ stall' = 0
            /\ pc' = "while"
            /\ UNCHANGED <<result, entry_idx, char_code>>
       ELSE /\ pc' = "idle"
            /\ result' = "True"
            /\ UNCHANGED locals
    /\ UNCHANGED <<inputs, fields, error, parses, output>>

(***************************************************************************)
(* One evaluation of the while condition and, when it holds, one iteration *)
(* of the body.  Leaving the loop (condition false, or break) runs lines   *)
(* 296-298 and goes on to the next entry; an exception ends parse().       *)
(***************************************************************************)
EndEntry ==
    /\ strings' = IF current_string # <<>>
                  THEN Append(strings,
                           Record(entries[entry_idx + 1].index, current_string))
                  ELSE strings
    /\ entry_idx' = entry_idx + 1
    /\ pc' = "for"
    /\ UNCHANGED <<i, current_string, char_code, fresh_code, stall, result, error>>

Step == LoopBody(raw_data, font_data, player_surname, player_given_name,
                 is_32bit, i, current_string, char_code)

\* the same iteration in a decode that started at this entry
FreshStep == LoopBody(raw_data, font_data, player_surname, player_given_name,
                      is_32bit, i, current_string, fresh_code)

WhileIter ==
    /\ pc = "while"
    /\ stall < MaxStall
    /\ IF i < Len(raw_data)
       THEN IF Step.exc # "none"
            THEN /\ pc' = "idle" /\ result' = "False" /\ error' = Step.exc
                 /\ UNCHANGED <<strings, locals>>
            ELSE IF Step.brk
            THEN EndEntry
            ELSE /\ i' = Step.i
                 /\ current_string' = Step.current_string
                 /\ char_code' = Step.char_code
                 /\ fresh_code' = FreshStep.char_code
                 /\ stall' = IF Step.i = i THEN stall + 1 ELSE 0
                 /\ UNCHANGED <<strings, entry_idx, pc, result, error>>
       ELSE EndEntry
    /\ UNCHANGED <<inputs, raw_data, magic, version, count, text_offset,
                   entries, parses, output>>

(***************************************************************************)
(* main(): save_txt runs only after parse() returned True.                 *)
(***************************************************************************)
save_txt ==
    << <<"#", " ", "E", "x", "t", "r", "a", "c", "t", "e", "d", " ", "b", "y",
         " ", "m", "s", "b", "2", "t", "x", "t">>,
       <<"#", " ", "C", "o", "p", "y", "r", "i", "g", "h", "t", " ", "(", "c",
         ")", " ", "2", "0", "2", "5", " ", "T", "o", "m", "m", "y", " ", "L",
         "a", "u">>,
       <<"#", " ", "P", "l", "a", "y", "e", "r", " ", "n", "a", "m", "e", ":",
         " ">> \o player_surname \o <<" ">> \o player_given_name,
       <<>> >> \o strings

SaveTxt ==
    /\ pc = "idle"
    /\ result = "True"
    /\ output' = save_txt
    /\ UNCHANGED <<inputs, fields, locals, pc, result, error, parses>>

Next == Parse \/ ForEntry \/ WhileIter \/ SaveTxt

Spec == Init /\ [][Next]_vars

(***************************************************************************)
(* Properties.                                                             *)
(***************************************************************************)
\* the byte under the cursor, for a cursor inside the buffer
InBuffer == pc = "while" /\ 0 <= i /\ i < Len(raw_data)
CurrentByte == raw_data[i + 1]
WordWidth == IF is_32bit THEN 4 ELSE 2
IsLeadByte(b) == b >= 128 /\ b < 255

\* the absolute start of the text of the entry being decoded
EntryStart == text_offset + entries[entry_idx + 1].offset

\* the first iteration of an entry
AtEntryStart == pc = "while" /\ i = EntryStart /\ current_string = <<>> /\ stall = 0

\* C1: every iteration of the per-entry decode loop either leaves the loop or
\* advances the cursor i by at least 1.
C1_CursorAdvances ==
    [][(pc = "while" /\ pc' = "while") => i' >= i + 1]_vars

\* C2: an entry whose text begins at the last byte of the buffer ends at once,
\* without an error, and a lead byte there appends nothing (no character).
C2_LastByteEntry ==
    [][(AtEntryStart /\ i = Len(raw_data) - 1)
         => /\ error' = "none" /\ result' # "False"
            /\ pc' = "for" \/ (pc' = "while" /\ i' >= Len(raw_data))
            /\ IsLeadByte(CurrentByte) => current_string' = current_string]_vars

\* the three format errors of a file: wrong signature, fewer than 16 bytes,
\* an entry record that extends past the end of the buffer
BadMagic(f) == Slice(f, 0, 4) # <<77, 69, 83, 0>>
TruncatedHeader(f) == Len(f) < 16
TruncatedTable(f) ==
    /\ ~TruncatedHeader(f)
    /\ UnpackLE32(SubSeq(f, 9, 12)) > 0
    /\ 16 + (8 * UnpackLE32(SubSeq(f, 9, 12))) > Len(f)
FormatError(f) == BadMagic(f) \/ TruncatedHeader(f) \/ TruncatedTable(f)

\* C3: only a format error makes parse() fail; a lookup miss or a character or
\* opcode cut off by the buffer end never does.
C3_OnlyFormatErrorHalts ==
    result = "False" => FormatError(raw_data)

\* s is t followed by something
IsPrefix(t, s) == Len(t) <= Len(s) /\ SubSeq(s, 1, Len(t)) = t

\* C4: after a decode pass there are at most entry_count records, and the
\* records map to the entries of the entry table by a strictly increasing map
\* (each entry the source of at most one record, in entry order) under which
\* every record carries the logical index of its entry.
C4_RecordsMatchEntries ==
    (pc = "idle" /\ result = "True") =>
        /\ Len(strings) <= Max(count, 0)
        /\ \E f \in [1..Len(strings) -> 1..Max(count, 0)] :
              /\ \A a, b \in 1..Len(strings) : a < b => f[a] < f[b]
              /\ \A a \in 1..Len(strings) :
                    IsPrefix(<<"[">> \o Dec(entries[f[a]].index) \o <<"]", " ">>,
                             strings[a])

\* C5: whenever the output file is written again for the same parser (same
\* file, character table and names), it is written with the same content.
C5_SameOutputTwice ==
    [][(output # <<>> /\ output' # <<>>) => output' = output]_vars

\* what an iteration does that the caller can see
Observable(o) == <<o.i, o.current_string, o.brk, o.exc>>

\* C6: an iteration does what it does in a decode that starts at this entry:
\* nothing left by the preceding entries changes the result.
C6_NoStateAcrossEntries ==
    (pc = "while" /\ i < Len(raw_data)) => Observable(Step) = Observable(FreshStep)

\* C7: a file with a format error makes every parse() return False: the
\* decode loops are never entered, no record is emitted and no output file is
\* written; and whenever the header was accepted the magic is 'MES\0'.
C7_FormatErrorIsFatal ==
    /\ FormatError(file) =>
          /\ pc = "idle" /\ result # "True"
          /\ parses > 0 => result = "False"
          /\ strings = <<>> /\ output = <<>>
    /\ (pc # "idle" \/ result = "True") => magic = <<77, 69, 83, 0>>

W_C7 ==
    /\ parses > 0 /\ pc = "idle" /\ result = "False"
    /\ ~BadMagic(file) /\ TruncatedTable(file)
    /\ strings = <<>> /\ output = <<>>

\* the value of a string of uppercase hexadecimal digits
HexDigitValue(d) == (CHOOSE k \in 1..16 : HexDigits[k] = d) - 1
RECURSIVE HexValue(_)
HexValue(t) ==
    IF t = <<>> THEN 0
    ELSE (HexValue(SubSeq(t, 1, Len(t) - 1)) * 16) + HexDigitValue(t[Len(t)])
IsUpperHex(t) == \A k \in 1..Len(t) : \E d \in 1..16 : HexDigits[d] = t[k]

\* what an iteration appended to the accumulator
Appended == SubSeq(current_string', Len(current_string) + 1, Len(current_string'))
Appends == IsPrefix(current_string, current_string')
Continues == pc' = "while" /\ error' = "none" /\ result' = result

\* the big-endian word under the cursor with its high bit cleared
WordCode ==
    IF is_32bit
    THEN ((raw_data[i + 1] - 128) * 16777216) + (raw_data[i + 2] * 65536)
             + (raw_data[i + 3] * 256) + raw_data[i + 4]
    ELSE ((raw_data[i + 1] - 128) * 256) + raw_data[i + 2]

\* C8: at a lead byte with the full word in the buffer, the cursor advances by
\* the word width and the engine appends table[c] when c is inside the table,
\* else '[' + 8 uppercase hex digits of c + ']', and the entry goes on.
C8_CharacterBranch ==
    [][(InBuffer /\ IsLeadByte(CurrentByte) /\ i + WordWidth <= Len(raw_data))
         => /\ Continues /\ Appends
            /\ i' = i + WordWidth
            /\ IF WordCode < Len(font_data)
               THEN Appended = <<font_data[WordCode + 1]>>
               ELSE /\ Len(Appended) = 10
                    /\ Appended[1] = "[" /\ Appended[10] = "]"
                    /\ IsUpperHex(SubSeq(Appended, 2, 9))
                    /\ HexValue(SubSeq(Appended, 2, 9)) = WordCode]_vars

W_C8 ==
    /\ ~is_32bit /\ font_data = <<"A", "B">>
    /\ file = WellFormed(<<0>>, <<128, 0, 128, 1, 255>>)
    /\ parses = 1 /\ result = "True"
    /\ strings = << <<"[", "4", "]", " ", "A", "B">> >>

\* C9: at byte 0x04 with three more bytes R, G, B in the buffer, the engine
\* appends '<#RRGGBB>' and advances the cursor by 4, also when the three
\* bytes are the last of the buffer and whatever their values.
C9_SetColor ==
    [][(InBuffer /\ CurrentByte = 4 /\ i + 4 <= Len(raw_data))
         => /\ Continues /\ Appends
            /\ i' = i + 4
            /\ Len(Appended) = 9
            /\ Appended[1] = "<" /\ Appended[2] = "#" /\ Appended[9] = ">"
            /\ IsUpperHex(SubSeq(Appended, 3, 8))
            /\ HexValue(SubSeq(Appended, 3, 4)) = raw_data[i + 2]
            /\ HexValue(SubSeq(Appended, 5, 6)) = raw_data[i + 3]
            /\ HexValue(SubSeq(Appended, 7, 8)) = raw_data[i + 4]]_vars

W_C9 ==
    /\ file = WellFormed(<<0>>, <<4, 31, 42, 255>>)
    /\ parses = 1 /\ result = "True"
    /\ strings = << <<"[", "4", "]", " ", "<", "#", "1", "F", "2", "A", "F", "F", ">">> >>

\* C10: byte 0x20 appends the surname and byte 0x21 the given name, verbatim,
\* with the cursor advanced by 1, and never the bracketed opcode name.
C10_PlayerNames ==
    [][(InBuffer /\ (CurrentByte = 32 \/ CurrentByte = 33))
         => /\ Continues /\ Appends
            /\ i' = i + 1
            /\ CurrentByte = 32 => Appended = player_surname
            /\ CurrentByte = 33 => Appended = player_given_name
            /\ Appended # <<"[">> \o COMMAND_CODES[CurrentByte] \o <<"]">>]_vars

W_C10 ==
    /\ ~is_32bit /\ font_data = <<"A", "B">>
    /\ player_surname = <<"K", "u", "d", "o">>
    /\ file = WellFormed(<<0>>, <<32, 128, 0, 255>>)
    /\ parses = 1 /\ result = "True"
    /\ strings = << <<"[", "4", "]", " ", "K", "u", "d", "o", "A">> >>

\* the indices the next iteration asks for
ReadsNow == Reads(raw_data, is_32bit, i)
BufferIndices == 0..(Len(raw_data) - 1)
StartsOutside == EntryStart < 0 \/ EntryStart >= Len(raw_data)

\* C11: the loop body runs only with 0 <= i < len(buffer) and asks only for
\* indices 0..len(buffer)-1; an entry whose start lies outside the buffer
\* reads nothing and builds no text (so no record).
C11_ReadsInsideBuffer ==
    /\ (pc = "while" /\ i < Len(raw_data)) =>
          0 <= i /\ ReadsNow \subseteq BufferIndices
    /\ (pc = "while" /\ StartsOutside) =>
          i = EntryStart /\ current_string = <<>>

\* fewer bytes after the opcode under the cursor than its operand needs
OperandCutOff ==
    \/ CurrentByte = 4  /\ i + 4 > Len(raw_data)
    \/ CurrentByte = 18 /\ i + 3 > Len(raw_data)

\* C12: 0x04 with fewer than 3 bytes after it, or 0x12 with fewer than 2, is
\* handled as a plain opcode: '[SetColor]' or '[SetMarginLeft]' is appended,
\* the cursor advances by exactly 1, only the byte under the cursor is read,
\* and the loop goes on with the byte that follows.
C12_TruncatedOperand ==
    [][(InBuffer /\ OperandCutOff)
         => /\ Continues /\ Appends
            /\ i' = i + 1
            /\ CurrentByte = 4 =>
                  Appended = <<"[", "S", "e", "t", "C", "o", "l", "o", "r", "]">>
            /\ CurrentByte = 18 =>
                  Appended = <<"[", "S", "e", "t", "M", "a", "r", "g", "i", "n",
                               "L", "e", "f", "t", "]">>
            /\ ReadsNow = {i}]_vars

W_C12 ==
    /\ file = WellFormed(<<0>>, <<4, 31, 42>>)
    /\ parses = 1 /\ result = "True"
    /\ strings = << <<"[", "4", "]", " ",
                      "[", "S", "e", "t", "C", "o", "l", "o", "r", "]",
                      "[", "C", "m", "d", "1", "F", "]",
                      "[", "C", "m", "d", "2", "A", "]">> >>

=============================================================================
